---- MODULE Spec2Model ----
(***************************************************************************)
(* A model of the expense-tracker backend (src/app.py) over the PostgreSQL *)
(* schema of src/models.py.                                                *)
(*                                                                         *)
(* Money is an integer: request amounts are counted in thousandths (three  *)
(* fractional digits is the finest input the model submits), stored        *)
(* amounts in hundredths, as NUMERIC(10,2) keeps them.  Text the code      *)
(* parses or formats (dates, numeric strings) is a sequence of one-        *)
(* character strings; text it only stores or compares is a plain string.   *)
(***************************************************************************)
EXTENDS Integers, Sequences, FiniteSets, TLC

VARIABLES
    users,    \* the rows of the users table (src/models.py:14-20)
    userSeq,  \* the last value of the users.id sequence
    tokens,   \* the user ids login has issued an access token for
    txns,     \* the rows of the transactions table (src/models.py:24-34)
    txnSeq,   \* the last value of the transactions.id sequence
    resp      \* the answer to the last request: route, caller, id in the
              \* URL, status, exception raised, body

vars == <<users, userSeq, tokens, txns, txnSeq, resp>>

\* The largest value the users_id_seq / transactions_id_seq sequences may reach.
MaxUserId == 2
MaxTxnId == 2

(***************************************************************************)
(* JSON values of a request body.                                          *)
(***************************************************************************)
Absent == [t |-> "absent"]
Null == [t |-> "null"]
Num(n) == [t |-> "num", v |-> n]
Str(s) == [t |-> "str", v |-> s]
Chars(s) == [t |-> "chars", v |-> s]

IsString(x) == x.t \in {"str", "chars"}

\* Python truthiness of data.get(k): None, 0, 0.0 and "" are false.
Truthy(x) ==
    CASE x.t = "absent" -> FALSE
      [] x.t = "null" -> FALSE
      [] x.t = "num" -> x.v # 0
      [] x.t = "str" -> x.v # ""
      [] x.t = "chars" -> x.v # <<>>

\* A NULL column value.
NULL == "<NULL>"

DigitChars == {"0", "1", "2", "3", "4", "5", "6", "7", "8", "9"}

DigitOf(c) ==
    CASE c = "0" -> 0 [] c = "1" -> 1 [] c = "2" -> 2 [] c = "3" -> 3
      [] c = "4" -> 4 [] c = "5" -> 5 [] c = "6" -> 6 [] c = "7" -> 7
      [] c = "8" -> 8 [] c = "9" -> 9

CharOf(d) ==
    CASE d = 0 -> "0" [] d = 1 -> "1" [] d = 2 -> "2" [] d = 3 -> "3"
      [] d = 4 -> "4" [] d = 5 -> "5" [] d = 6 -> "6" [] d = 7 -> "7"
      [] d = 8 -> "8" [] d = 9 -> "9"

IsDigits(s) == \A i \in 1..Len(s) : s[i] \in DigitChars

RECURSIVE DigitsVal(_)
DigitsVal(s) ==
    IF s = <<>> THEN 0
    ELSE 10 * DigitsVal(SubSeq(s, 1, Len(s) - 1)) + DigitOf(s[Len(s)])

Abs(n) == IF n < 0 THEN -n ELSE n

(***************************************************************************)
(* float(x), in thousandths.  A number is itself; a string is an optional  *)
(* sign, digits and an optional fraction of at most three digits; anything *)
(* else in the model's alphabet raises ValueError, None raises TypeError.  *)
(***************************************************************************)
FloatOfChars(s) ==
    LET neg == s # <<>> /\ s[1] = "-"
        body == IF neg THEN Tail(s) ELSE s
        dots == {i \in 1..Len(body) : body[i] = "."}
        dot == IF dots = {} THEN Len(body) + 1 ELSE CHOOSE i \in dots : TRUE
        whole == SubSeq(body, 1, dot - 1)
        frac == SubSeq(body, dot + 1, Len(body))
        scale == CASE Len(frac) = 0 -> 1000 [] Len(frac) = 1 -> 100
                   [] Len(frac) = 2 -> 10 [] OTHER -> 1
        mag == 1000 * DigitsVal(whole) + scale * DigitsVal(frac)
    IN  IF /\ Cardinality(dots) <= 1
           /\ IsDigits(whole) /\ IsDigits(frac)
           /\ Len(whole) + Len(frac) > 0
           /\ Len(frac) <= 3
        THEN [ok |-> TRUE, v |-> IF neg THEN -mag ELSE mag]
        ELSE [ok |-> FALSE, err |-> "ValueError"]

Float(x) ==
    CASE x.t = "num" -> [ok |-> TRUE, v |-> x.v]
      [] x.t = "chars" -> FloatOfChars(x.v)
      [] x.t = "str" -> [ok |-> FALSE, err |-> "ValueError"]
      [] OTHER -> [ok |-> FALSE, err |-> "TypeError"]

\* A value bound to the NUMERIC(10,2) column: rounded to hundredths, half
\* away from zero.
Numeric2(thousandths) ==
    LET q == (Abs(thousandths) + 5) \div 10
    IN  IF thousandths < 0 THEN -q ELSE q

\* float(t.amount) of a stored amount, in thousandths.
FloatOfNumeric(hundredths) == 10 * hundredths

(***************************************************************************)
(* Dates.  datetime.strptime(s, "%Y-%m-%d").date() and str(date).          *)
(***************************************************************************)
IsLeap(y) == (y % 4 = 0 /\ y % 100 # 0) \/ y % 400 = 0

DaysInMonth(y, m) ==
    CASE m \in {4, 6, 9, 11} -> 30
      [] m = 2 -> IF IsLeap(y) THEN 29 ELSE 28
      [] OTHER -> 31

\* The value of a digit string of at most four digits.
Digits4(s) ==
    CASE Len(s) = 1 -> DigitOf(s[1])
      [] Len(s) = 2 -> 10 * DigitOf(s[1]) + DigitOf(s[2])
      [] Len(s) = 4 -> 1000 * DigitOf(s[1]) + 100 * DigitOf(s[2])
                       + 10 * DigitOf(s[3]) + DigitOf(s[4])

\* "%Y-%m-%d" matches four digits, "-", one or two digits, "-", one or two
\* digits; date() then rejects what is no day of the calendar.
Strptime(x) ==
    IF ~IsString(x) THEN [ok |-> FALSE, err |-> "TypeError"]
    ELSE IF x.t = "str" THEN [ok |-> FALSE, err |-> "ValueError"]
    ELSE
    LET s == x.v
        n == Len(s)
        wellFormed ==
            /\ n \in 8..10
            /\ s[5] = "-"
            /\ \/ s[7] = "-" /\ n \in {8, 9}
               \/ s[8] = "-" /\ n \in {9, 10}
            /\ \A i \in 1..n : s[i] = "-" \/ s[i] \in DigitChars
            /\ Cardinality({i \in 1..n : s[i] = "-"}) = 2
        second == IF s[7] = "-" THEN 7 ELSE 8
    IN  IF ~wellFormed THEN [ok |-> FALSE, err |-> "ValueError"]
        ELSE LET y == Digits4(SubSeq(s, 1, 4))
                 m == Digits4(SubSeq(s, 6, second - 1))
                 d == Digits4(SubSeq(s, second + 1, n))
             IN  IF /\ y >= 1
                    /\ m \in 1..12
                    /\ d \in 1..DaysInMonth(y, m)
                 THEN [ok |-> TRUE, v |-> [y |-> y, m |-> m, d |-> d]]
                 ELSE [ok |-> FALSE, err |-> "ValueError"]

Pad2(n) == <<CharOf(n \div 10), CharOf(n % 10)>>

Pad4(n) ==
    <<CharOf(n \div 1000), CharOf((n \div 100) % 10),
      CharOf((n \div 10) % 10), CharOf(n % 10)>>

\* str(t.date): the ISO form YYYY-MM-DD.
IsoFormat(date) == Pad4(date.y) \o <<"-">> \o Pad2(date.m) \o <<"-">> \o Pad2(date.d)

\* t.date.strftime("%d-%m-%Y")
DmyFormat(date) == Pad2(date.d) \o <<"-">> \o Pad2(date.m) \o <<"-">> \o Pad4(date.y)

\* The order of the DATE column.
DateLeq(a, b) ==
    \/ a.y < b.y
    \/ a.y = b.y /\ a.m < b.m
    \/ a.y = b.y /\ a.m = b.m /\ a.d <= b.d

\* The decimal digits of a natural number.
RECURSIVE DecimalChars(_)
DecimalChars(n) ==
    IF n < 10 THEN <<CharOf(n)>>
    ELSE DecimalChars(n \div 10) \o <<CharOf(n % 10)>>

\* f"{x:.2f}" of an amount in hundredths.
Format2f(hundredths) ==
    (IF hundredths < 0 THEN <<"-">> ELSE <<>>)
    \o DecimalChars(Abs(hundredths) \div 100)
    \o <<".">> \o Pad2(Abs(hundredths) % 100)

(***************************************************************************)
(* The store: the users and transactions tables with their constraints.    *)
(***************************************************************************)
\* A text column bound from a JSON value.
ColText(x) == IF x.t \in {"null", "absent"} THEN NULL ELSE x.v

UserIds == {u.id : u \in users}

\* The users table without UNIQUE on email.
UserRowValidNoUnique(row) ==
    /\ row.name # NULL
    /\ row.email # NULL

\* users: name NOT NULL, email UNIQUE NOT NULL.  (password NOT NULL cannot
\* fail: the handler always binds a hash.)
UserRowValid(row) ==
    /\ row.name # NULL
    /\ row.email # NULL
    /\ \A u \in users : u.email # row.email

\* What the INSERT of a row that is not valid raises.
UserRowError(row) ==
    IF row.name = NULL \/ row.email = NULL
    THEN "NotNullViolation"
    ELSE "UniqueViolation"

TxnTypes == {"debit", "credit"}
TxnModes == {"cash", "online"}

\* A CHECK constraint is satisfied when its expression is true or NULL.
\* (amount NOT NULL cannot fail: the handlers always bind a number.)
TxnRowValid(row) ==
    /\ row.user_id \in UserIds
    /\ row.type = NULL \/ row.type \in TxnTypes
    /\ row.category # NULL
    /\ row.mode = NULL \/ row.mode \in TxnModes

\* Transaction.query.filter_by(user_id=user_id)
TxnsOf(user_id) == {t \in txns : t.user_id = user_id}

\* The lookup without its user_id filter.
LookupAnyOwner(txn_id, user_id) == {t \in txns : t.id = txn_id}

\* Transaction.query.filter_by(id=txn_id, user_id=user_id)
Lookup(txn_id, user_id) == {t \in txns : t.id = txn_id /\ t.user_id = user_id}

\* Every arrangement of a set of rows in a sequence.
Perms(S) ==
    {s \in [1..Cardinality(S) -> S] : \A i, j \in DOMAIN s : i # j => s[i] # s[j]}

\* ORDER BY date: any arrangement in which the dates do not decrease; rows
\* of the same date come in whatever order the database yields them.
OrderByDateAsc(S) ==
    {s \in Perms(S) : \A i \in 1..(Len(s) - 1) : DateLeq(s[i].date, s[i + 1].date)}

\* The listing query ordered the wrong way round.
OrderByDateDescAscending(S) ==
    {s \in Perms(S) : \A i \in 1..(Len(s) - 1) : DateLeq(s[i].date, s[i + 1].date)}

OrderByDateDesc(S) ==
    {s \in Perms(S) : \A i \in 1..(Len(s) - 1) : DateLeq(s[i + 1].date, s[i].date)}

(***************************************************************************)
(* Responses.                                                              *)
(***************************************************************************)
Reply(op, user, id, status, error, body) ==
    [op |-> op, user |-> user, id |-> id, status |-> status,
     error |-> error, body |-> body]

NoReply == Reply("none", 0, 0, 0, "", <<>>)

Success == [success |-> TRUE]

\* The pages Flask answers an unhandled exception and first_or_404 with.
InternalServerError == [page |-> "Internal Server Error"]
NotFound == [page |-> "Not Found"]

Required == {"amount", "type", "category", "mode", "date"}

(***************************************************************************)
(* Auth.                                                                   *)
(***************************************************************************)
GeneratePasswordHash(password) == <<"pbkdf2", password>>

CheckPasswordHash(pwhash, password) == pwhash = <<"pbkdf2", password>>

\* POST /api/register: whatever is raised is answered 400.
Register(data) ==
    /\ UNCHANGED <<tokens, txns, txnSeq>>
    /\ IF \E k \in {"name", "email", "password"} : data[k].t = "absent"
       THEN /\ resp' = Reply("register", 0, 0, 400, "KeyError",
                             [error |-> "Email already exists"])
            /\ UNCHANGED <<users, userSeq>>
       ELSE IF ~IsString(data.password)
       THEN /\ resp' = Reply("register", 0, 0, 400, "AttributeError",
                             [error |-> "Email already exists"])
            /\ UNCHANGED <<users, userSeq>>
       ELSE /\ userSeq < MaxUserId
            /\ userSeq' = userSeq + 1
            /\ LET row == [id |-> userSeq + 1,
                           name |-> ColText(data.name),
                           email |-> ColText(data.email),
                           password |-> GeneratePasswordHash(data.password.v)]
               IN  IF UserRowValid(row)
                   THEN /\ users' = users \cup {row}
                        /\ resp' = Reply("register", 0, 0, 200, "", Success)
                   ELSE /\ users' = users
                        /\ resp' = Reply("register", 0, 0, 400,
                                         UserRowError(row),
                                         [error |-> "Email already exists"])

\* POST /api/login
Login(data) ==
    /\ UNCHANGED <<users, userSeq, txns, txnSeq>>
    /\ LET found == {u \in users : u.email = ColText(data.email)}
       IN  IF found = {}
           THEN /\ resp' = Reply("login", 0, 0, 401, "",
                                 [error |-> "Invalid credentials"])
                /\ UNCHANGED tokens
           ELSE LET user == CHOOSE u \in found : TRUE
                IN  IF ~IsString(data.password)
                    THEN /\ resp' = Reply("login", 0, 0, 500, "AttributeError",
                                          InternalServerError)
                         /\ UNCHANGED tokens
                    ELSE IF ~CheckPasswordHash(user.password, data.password.v)
                    THEN /\ resp' = Reply("login", 0, 0, 401, "",
                                          [error |-> "Invalid credentials"])
                         /\ UNCHANGED tokens
                    ELSE /\ tokens' = tokens \cup {user.id}
                         /\ resp' = Reply("login", 0, 0, 200, "",
                                [success |-> TRUE, token |-> user.id,
                                 user |-> [id |-> user.id, name |-> user.name,
                                           email |-> user.email]])

(***************************************************************************)
(* Transactions.                                                           *)
(***************************************************************************)
\* POST /api/add-transaction
AddTransaction(user_id, data) ==
    /\ user_id \in tokens
    /\ UNCHANGED <<users, userSeq, tokens>>
    /\ LET amount == Float(data.amount)
           date == Strptime(data.date)
       IN  IF ~\A k \in Required : Truthy(data[k])
           THEN /\ resp' = Reply("add", user_id, 0, 400, "",
                                 [error |-> "Missing fields"])
                /\ UNCHANGED <<txns, txnSeq>>
           ELSE IF ~amount.ok
           THEN /\ resp' = Reply("add", user_id, 0, 500, amount.err,
                                 InternalServerError)
                /\ UNCHANGED <<txns, txnSeq>>
           ELSE IF ~date.ok
           THEN /\ resp' = Reply("add", user_id, 0, 500, date.err,
                                 InternalServerError)
                /\ UNCHANGED <<txns, txnSeq>>
           ELSE /\ txnSeq < MaxTxnId
                /\ txnSeq' = txnSeq + 1
                /\ LET row == [id |-> txnSeq + 1,
                               user_id |-> user_id,
                               amount |-> Numeric2(amount.v),
                               type |-> ColText(data.type),
                               category |-> ColText(data.category),
                               description |-> ColText(data.description),
                               mode |-> ColText(data.mode),
                               date |-> date.v]
                   IN  IF TxnRowValid(row)
                       THEN /\ txns' = txns \cup {row}
                            /\ resp' = Reply("add", user_id, 0, 200, "", Success)
                       ELSE /\ txns' = txns
                            /\ resp' = Reply("add", user_id, 0, 500,
                                             "IntegrityError",
                                             InternalServerError)

\* One element of the JSON array GET /api/transactions answers.
TxnJson(t) ==
    [id |-> t.id,
     amount |-> FloatOfNumeric(t.amount),
     type |-> t.type,
     category |-> t.category,
     description |-> t.description,
     mode |-> t.mode,
     date |-> IsoFormat(t.date)]

\* The JSON arrays the query of transactions() can yield over the rows S.
TransactionsBodies(S) ==
    {[i \in DOMAIN rows |-> TxnJson(rows[i])] : rows \in OrderByDateDesc(S)}

\* GET /api/transactions
Transactions(user_id) ==
    /\ user_id \in tokens
    /\ UNCHANGED <<users, userSeq, tokens, txns, txnSeq>>
    /\ \E body \in TransactionsBodies(TxnsOf(user_id)) :
          resp' = Reply("transactions", user_id, 0, 200, "", body)

\* PUT /api/edit-transaction/<txn_id>
EditTransaction(user_id, txn_id, data) ==
    /\ user_id \in tokens
    /\ UNCHANGED <<users, userSeq, tokens, txnSeq>>
    /\ LET found == Lookup(txn_id, user_id)
           amount == Float(data.amount)
           date == Strptime(data.date)
       IN  IF found = {}
           THEN /\ resp' = Reply("edit", user_id, txn_id, 404, "", NotFound)
                /\ UNCHANGED txns
           ELSE IF data.amount.t = "absent"
           THEN /\ resp' = Reply("edit", user_id, txn_id, 500, "KeyError",
                                 InternalServerError)
                /\ UNCHANGED txns
           ELSE IF ~amount.ok
           THEN /\ resp' = Reply("edit", user_id, txn_id, 500, amount.err,
                                 InternalServerError)
                /\ UNCHANGED txns
           ELSE IF \E k \in {"type", "category", "mode", "date"} :
                      data[k].t = "absent"
           THEN /\ resp' = Reply("edit", user_id, txn_id, 500, "KeyError",
                                 InternalServerError)
                /\ UNCHANGED txns
           ELSE IF ~date.ok
           THEN /\ resp' = Reply("edit", user_id, txn_id, 500, date.err,
                                 InternalServerError)
                /\ UNCHANGED txns
           ELSE LET txn == CHOOSE t \in found : TRUE
                    row == [txn EXCEPT
                               !.amount = Numeric2(amount.v),
                               !.type = ColText(data.type),
                               !.category = ColText(data.category),
                               !.description = ColText(data.description),
                               !.mode = ColText(data.mode),
                               !.date = date.v]
                IN  IF TxnRowValid(row)
                    THEN /\ txns' = (txns \ {txn}) \cup {row}
                         /\ resp' = Reply("edit", user_id, txn_id, 200, "", Success)
                    ELSE /\ txns' = txns
                         /\ resp' = Reply("edit", user_id, txn_id, 500,
                                          "IntegrityError",
                                          InternalServerError)

\* A delete filtered by owner alone.
SessionDeleteAllOfOwner(found) ==
    txns \ {t \in txns : \E f \in found : f.user_id = t.user_id}

\* db.session.delete(txn); db.session.commit()
SessionDelete(found) == txns \ found

\* DELETE /api/delete-transaction/<txn_id>
DeleteTransaction(user_id, txn_id) ==
    /\ user_id \in tokens
    /\ UNCHANGED <<users, userSeq, tokens, txnSeq>>
    /\ LET found == Lookup(txn_id, user_id)
       IN  IF found = {}
           THEN /\ resp' = Reply("delete", user_id, txn_id, 404, "", NotFound)
                /\ UNCHANGED txns
           ELSE /\ txns' = SessionDelete(found)
                /\ resp' = Reply("delete", user_id, txn_id, 200, "", Success)

(***************************************************************************)
(* Ledger, analytics, export.                                              *)
(***************************************************************************)
\* sum(t.amount if t.type == "credit" else -t.amount for t in txns)
RECURSIVE LedgerSum(_)
LedgerSum(S) ==
    IF S = {} THEN 0
    ELSE LET t == CHOOSE x \in S : TRUE
         IN  (IF t.type = "credit" THEN t.amount ELSE -t.amount)
             + LedgerSum(S \ {t})

\* GET /api/ledger
Ledger(user_id) ==
    /\ user_id \in tokens
    /\ UNCHANGED <<users, userSeq, tokens, txns, txnSeq>>
    /\ resp' = Reply("ledger", user_id, 0, 200, "",
                     [balance |-> LedgerSum(TxnsOf(user_id))])

\* d.get(k, 0) and d[k] = v on a dict.
DictGet(d, k) == IF k \in DOMAIN d THEN d[k] ELSE 0

DictPut(d, k, v) == [x \in DOMAIN d \cup {k} |-> IF x = k THEN v ELSE d[x]]

EmptyDict == [x \in {} |-> 0]

\* The category total without its restriction to debits.
CategoriesAfterAnyType(categories, t) ==
    DictPut(categories, t.category, DictGet(categories, t.category) + t.amount)

\* if t.type == "debit": categories[t.category] = ... + t.amount
CategoriesAfter(categories, t) ==
    IF t.type = "debit"
    THEN DictPut(categories, t.category, DictGet(categories, t.category) + t.amount)
    ELSE categories

\* The loop of analytics() over the rows not yet visited.
RECURSIVE AnalyticsLoop(_, _)
AnalyticsLoop(S, acc) ==
    IF S = {} THEN acc
    ELSE LET t == CHOOSE x \in S : TRUE
             modes == DictPut(acc.modes, t.mode, DictGet(acc.modes, t.mode) + t.amount)
             types == DictPut(acc.types, t.type, DictGet(acc.types, t.type) + t.amount)
             categories == CategoriesAfter(acc.categories, t)
         IN  AnalyticsLoop(S \ {t},
                 [modes |-> modes, types |-> types, categories |-> categories])

\* GET /api/analytics
Analytics(user_id) ==
    /\ user_id \in tokens
    /\ UNCHANGED <<users, userSeq, tokens, txns, txnSeq>>
    /\ resp' = Reply("analytics", user_id, 0, 200, "",
                     AnalyticsLoop(TxnsOf(user_id),
                         [modes |-> EmptyDict, types |-> EmptyDict,
                          categories |-> EmptyDict]))

\* The table body of download_ledger: one rendered row per transaction, each
\* with the running balance after it.
RECURSIVE LedgerRows(_, _)
LedgerRows(rows, running_balance) ==
    IF rows = <<>> THEN <<>>
    ELSE LET t == Head(rows)
             after == IF t.type = "debit"
                      THEN running_balance - t.amount
                      ELSE running_balance + t.amount
         IN  <<[date |-> DmyFormat(t.date),
                debit |-> IF t.type = "debit" THEN Format2f(t.amount) ELSE <<>>,
                credit |-> IF t.type = "debit" THEN <<>> ELSE Format2f(t.amount),
                balance |-> Format2f(after)]>>
             \o LedgerRows(Tail(rows), after)

\* running_balance after the loop.
RECURSIVE RunningBalance(_, _)
RunningBalance(rows, running_balance) ==
    IF rows = <<>> THEN running_balance
    ELSE LET t == Head(rows)
         IN  RunningBalance(Tail(rows),
                 IF t.type = "debit"
                 THEN running_balance - t.amount
                 ELSE running_balance + t.amount)

\* The documents download_ledger can render for a user over the rows S.
LedgerDocuments(user, S) ==
    {[holder |-> user.name,
      rows |-> LedgerRows(rows, 0),
      closing |-> Format2f(RunningBalance(rows, 0))] : rows \in OrderByDateAsc(S)}

\* GET /api/download-ledger
DownloadLedger(user_id) ==
    /\ user_id \in tokens
    /\ UNCHANGED <<users, userSeq, tokens, txns, txnSeq>>
    /\ IF user_id \notin UserIds
       THEN resp' = Reply("download", user_id, 0, 404, "", NotFound)
       ELSE LET user == CHOOSE u \in users : u.id = user_id
            IN  \E body \in LedgerDocuments(user, TxnsOf(user_id)) :
                   resp' = Reply("download", user_id, 0, 200, "", body)

(***************************************************************************)
(* The requests the model submits.                                         *)
(***************************************************************************)
Date0101 == Chars(<<"2", "0", "2", "4", "-", "0", "1", "-", "0", "1">>)
Date0102 == Chars(<<"2", "0", "2", "4", "-", "1", "-", "2">>)
Date0230 == Chars(<<"2", "0", "2", "4", "-", "0", "2", "-", "3", "0">>)
DateSlash == Chars(<<"0", "1", "/", "0", "1", "/", "2", "0", "2", "4">>)

\* Two well-formed transaction bodies.
Lunch ==
    [amount |-> Num(1005), type |-> Str("debit"), category |-> Str("food"),
     description |-> Str("lunch"), mode |-> Str("cash"), date |-> Date0101]

Salary ==
    [amount |-> Num(2000), type |-> Str("credit"), category |-> Str("salary"),
     description |-> Absent, mode |-> Str("online"), date |-> Date0102]

\* Each of them with one field replaced.
FieldValues ==
    [amount |-> {Absent, Null, Num(0), Num(-1000), Chars(<<"x">>)},
     type |-> {Absent, Null, Str("transfer"), Str("credit")},
     category |-> {Absent, Null},
     mode |-> {Absent, Str("upi")},
     date |-> {Absent, Null, Date0230, DateSlash}]

\* The well-formed bodies, two more on Lunch's date, and three defects.
CoreBodies ==
    {Lunch, Salary,
     [Lunch EXCEPT !.type = Str("credit")],
     [Lunch EXCEPT !.type = Null],
     [Lunch EXCEPT !.amount = Absent],
     [Lunch EXCEPT !.mode = Str("upi")],
     [Lunch EXCEPT !.date = Date0230]}

\* Lunch with any one field replaced.
TxnBodies ==
    {Lunch, Salary}
    \cup UNION {{[Lunch EXCEPT ![k] = v] : v \in FieldValues[k]} :
                  k \in DOMAIN FieldValues}

\* The ids a request may name: every id the sequence can have issued.
TxnIds == 1..MaxTxnId

RegisterBodies ==
    [name : {Str("alice"), Str("bob"), Null},
     email : {Str("a@x.io"), Str("b@x.io"), Null, Absent},
     password : {Str("pw1"), Str("pw2"), Null}]

LoginBodies ==
    [email : {Str("a@x.io"), Str("b@x.io"), Absent},
     password : {Str("pw1"), Str("pw2"), Absent}]

(***************************************************************************)
(* Specifications.                                                         *)
(***************************************************************************)
\* The empty database.
Init ==
    /\ users = {}
    /\ userSeq = 0
    /\ tokens = {}
    /\ txns = {}
    /\ txnSeq = 0
    /\ resp = NoReply

\* Registration and login.
Next ==
    \/ \E data \in RegisterBodies : Register(data)
    \/ \E data \in LoginBodies : Login(data)

Spec == Init /\ [][Next]_vars

\* Two users registered and logged in, no transaction yet: a state Spec
\* reaches (RegisteredAndLoggedIn below).
InitTxn ==
    /\ users = {[id |-> 1, name |-> "alice", email |-> "a@x.io",
                 password |-> GeneratePasswordHash("pw1")],
                [id |-> 2, name |-> "bob", email |-> "b@x.io",
                 password |-> GeneratePasswordHash("pw2")]}
    /\ userSeq = 2
    /\ tokens = {1, 2}
    /\ txns = {}
    /\ txnSeq = 0
    /\ resp = NoReply

\* The transaction, ledger, analytics and export handlers, for request
\* bodies drawn from a given set.
NextOver(bodies) ==
    \/ \E u \in tokens, data \in bodies : AddTransaction(u, data)
    \/ \E u \in tokens : Transactions(u)
    \/ \E u \in tokens, id \in TxnIds, data \in bodies :
          EditTransaction(u, id, data)
    \/ \E u \in tokens, id \in TxnIds : DeleteTransaction(u, id)
    \/ \E u \in tokens : Ledger(u)
    \/ \E u \in tokens : Analytics(u)
    \/ \E u \in tokens : DownloadLedger(u)

SpecTxn == InitTxn /\ [][NextOver(CoreBodies)]_vars

SpecInput == InitTxn /\ [][NextOver(TxnBodies)]_vars

RegisteredAndLoggedIn ==
    /\ users = {[id |-> 1, name |-> "alice", email |-> "a@x.io",
                 password |-> GeneratePasswordHash("pw1")],
                [id |-> 2, name |-> "bob", email |-> "b@x.io",
                 password |-> GeneratePasswordHash("pw2")]}
    /\ userSeq = 2
    /\ tokens = {1, 2}

(***************************************************************************)
(* Properties.                                                             *)
(***************************************************************************)
\* The rows of owner b in a table S.
OwnedBy(S, b) == {t \in S : t.user_id = b}

\* Sum of the amounts of a set of rows.
RECURSIVE SumAmount(_)
SumAmount(S) ==
    IF S = {} THEN 0
    ELSE LET t == CHOOSE x \in S : TRUE IN t.amount + SumAmount(S \ {t})

\* C1: a request made with identity A leaves every row of every other user
\* B as it was and answers with nothing but A's rows; an edit or delete by A
\* of an id that belongs to B is answered 404 "Not Found", as for an id that
\* does not exist, and leaves the whole transactions table unchanged.
C1_OwnershipIsolation ==
    [][\A b \in UserIds :
          resp'.user # b =>
             /\ OwnedBy(txns', b) = OwnedBy(txns, b)
             /\ resp'.op = "transactions" =>
                   \A i \in DOMAIN resp'.body :
                      resp'.body[i].id \notin {t.id : t \in OwnedBy(txns, b)}
             /\ resp'.op = "download" =>
                   \E rows \in OrderByDateAsc(OwnedBy(txns, resp'.user)) :
                      resp'.body.rows = LedgerRows(rows, 0)
             /\ resp'.op = "ledger" =>
                   resp'.body.balance = LedgerSum(OwnedBy(txns, resp'.user))
             /\ resp'.op = "analytics" =>
                   \A m \in DOMAIN resp'.body.modes :
                      \E t \in OwnedBy(txns, resp'.user) : t.mode = m
             /\ (/\ resp'.op \in {"edit", "delete"}
                 /\ \E t \in OwnedBy(txns, b) : t.id = resp'.id) =>
                   /\ resp'.status = 404
                   /\ resp'.body = NotFound
                   /\ txns' = txns]_vars

\* C1 witness: an edit of another user's transaction was just answered 404.
C1_Witness ==
    /\ resp.op = "edit"
    /\ resp.status = 404
    /\ \E t \in txns : t.id = resp.id /\ t.user_id # resp.user

\* C10: a successful edit replaces exactly the row (owner, id) by a row of the
\* same id and owner, a successful delete removes exactly that row; every
\* other transaction and every user record stays as it was.
C10_FrameOfEditDelete ==
    [][(resp'.op \in {"edit", "delete"} /\ resp'.status = 200) =>
          /\ users' = users
          /\ \E t \in txns :
                /\ t.id = resp'.id
                /\ t.user_id = resp'.user
                /\ txns' \ (txns \ {t}) \subseteq
                      {r \in txns' : r.id = t.id /\ r.user_id = t.user_id}
                /\ txns \ {t} \subseteq txns'
                /\ resp'.op = "edit" => Cardinality(txns') = Cardinality(txns)
                /\ resp'.op = "delete" => txns' = txns \ {t}]_vars

\* C10 witness: an edit succeeded while another user's transaction was in
\* the table.
C10_Witness ==
    /\ resp.op = "edit"
    /\ resp.status = 200
    /\ \E t \in txns : t.user_id # resp.user

\* A step that registers with an email some user already has.
RegisterTaken(data) ==
    /\ resp'.op = "register"
    /\ \E u \in users : u.email = ColText(data.email)
    /\ Register(data)

\* C6: no two users share an email, and a registration whose email already
\* belongs to a user is answered 400 and leaves the users table (every id,
\* name, email and password in it) unchanged.
C6_DuplicateEmailRejected ==
    /\ [](\A u, v \in users : u.email = v.email => u = v)
    /\ [][\A data \in RegisterBodies :
             RegisterTaken(data) => resp'.status = 400 /\ users' = users]_vars

\* C6 witness: a registration has just failed on the unique email.
C6_Witness ==
    /\ resp.op = "register"
    /\ resp.status = 400
    /\ resp.error = "UniqueViolation"
    /\ users # {}

DatesDescend(body) ==
    \A i \in 1..(Len(body) - 1) :
       DateLeq(Strptime(Chars(body[i + 1].date)).v, Strptime(Chars(body[i].date)).v)

\* The text fields of a listed record are the submitted ones, and its date
\* is the ISO form of the submitted date.
EchoesText(rec, data) ==
    /\ rec.type = ColText(data.type)
    /\ rec.category = ColText(data.category)
    /\ rec.description = ColText(data.description)
    /\ rec.mode = ColText(data.mode)
    /\ Len(rec.date) = 10
    /\ Strptime(Chars(rec.date)) = Strptime(data.date)

\* A step in which u adds with body data and is answered 200.
AddSucceeds(u, data) ==
    resp'.op = "add" /\ resp'.status = 200 /\ AddTransaction(u, data)

\* C8 as stated: after a successful add, every listing of the caller's
\* transactions holds a record whose amount, type, category, description,
\* mode and date are exactly the submitted ones, and is in descending date
\* order.
C8_RoundTripExact ==
    [][\A u \in tokens, data \in CoreBodies :
          AddSucceeds(u, data) =>
             \A body \in TransactionsBodies(OwnedBy(txns', u)) :
                /\ \E i \in DOMAIN body :
                      /\ body[i].amount = Float(data.amount).v
                      /\ EchoesText(body[i], data)
                /\ DatesDescend(body)]_vars

\* C8 amended: the same, with the listed amount the submitted amount rounded
\* to two decimals (a whole number of hundredths at most half a hundredth
\* away from it).
C8_RoundTripRounded ==
    [][\A u \in tokens, data \in CoreBodies :
          AddSucceeds(u, data) =>
             \A body \in TransactionsBodies(OwnedBy(txns', u)) :
                /\ \E i \in DOMAIN body :
                      /\ body[i].amount % 10 = 0
                      /\ Abs(body[i].amount - Float(data.amount).v) <= 5
                      /\ EchoesText(body[i], data)
                /\ DatesDescend(body)]_vars

\* C8 witness: an add has just succeeded for a user who now has two
\* transactions of different dates.
C8_Witness ==
    /\ resp.op = "add"
    /\ resp.status = 200
    /\ \E s, t \in OwnedBy(txns, resp.user) : s.date # t.date

\* C2: the ledger balance equals, as a two-decimal figure, the closing
\* balance and the last running balance of every export over the same
\* transactions; with no transactions it is 0 and the export has no rows.
C2_LedgerEqualsExport ==
    resp.op = "ledger" =>
       LET S == OwnedBy(txns, resp.user)
           user == CHOOSE u \in users : u.id = resp.user
       IN  /\ \A doc \in LedgerDocuments(user, S) :
                 /\ doc.closing = Format2f(resp.body.balance)
                 /\ doc.rows # <<>> =>
                       doc.rows[Len(doc.rows)].balance = Format2f(resp.body.balance)
                 /\ S = {} => doc.rows = <<>>
           /\ S = {} => resp.body.balance = 0

\* C9: an export's running balances are determined by the stored
\* transactions: every export over the same transactions shows the same
\* sequence of balances.
C9_ExportDeterministic ==
    (resp.op = "download" /\ resp.status = 200) =>
       LET user == CHOOSE u \in users : u.id = resp.user
       IN  \A doc \in LedgerDocuments(user, OwnedBy(txns, resp.user)) :
              [i \in DOMAIN doc.rows |-> doc.rows[i].balance]
              = [i \in DOMAIN resp.body.rows |-> resp.body.rows[i].balance]

\* A step in which u edits a transaction of theirs with a body that lacks a
\* required field.
EditLackingField(u, id, data) ==
    /\ resp'.op = "edit"
    /\ Lookup(id, u) # {}
    /\ \E k \in Required : data[k].t = "absent"
    /\ EditTransaction(u, id, data)

\* C3: an edit of a transaction the caller owns whose body lacks a required
\* field is answered 400 and leaves the transactions table unchanged.
C3_EditMissingFieldRejected ==
    [][\A u \in tokens, id \in TxnIds, data \in TxnBodies :
          EditLackingField(u, id, data) =>
             resp'.status = 400 /\ txns' = txns]_vars

\* A body add_transaction is to reject: a required field missing (absent,
\* null, empty or zero, as the handler reads "missing"), a type or mode
\* outside its set, or a date that is no calendar date.
Rejectable(data) ==
    \/ \E k \in Required : ~Truthy(data[k])
    \/ ColText(data.type) \notin TxnTypes
    \/ ColText(data.mode) \notin TxnModes
    \/ ~Strptime(data.date).ok

\* A step in which u adds with body data.
AddStep(u, data) == resp'.op = "add" /\ AddTransaction(u, data)

\* C4: add_transaction answers 400 and adds nothing for a rejectable body,
\* and otherwise adds exactly one transaction, owned by the caller.
C4_AddValidates ==
    [][\A u \in tokens, data \in TxnBodies :
          AddStep(u, data) =>
             IF Rejectable(data)
             THEN resp'.status = 400 /\ txns' = txns
             ELSE /\ txns \subseteq txns'
                  /\ Cardinality(txns' \ txns) = 1
                  /\ \A t \in txns' \ txns : t.user_id = u]_vars

\* C5: every stored transaction has type debit or credit and a positive
\* amount.
C5_PositiveAmountAndType ==
    \A t \in txns : t.type \in TxnTypes /\ t.amount > 0

====
